---- MODULE Spec2Model ----
(***************************************************************************)
(* The real-time gateway of src/services/websocket.service.js: one ESP32   *)
(* device slot, a registry of authenticated web clients, the heartbeat and *)
(* staleness timers, the message router, the sensor-data pipeline and the  *)
(* command relay.  Every connection accepted by the server is a handle;    *)
(* readyState follows the ws library (OPEN -> CLOSING -> CLOSED, the       *)
(* 'close' event being delivered when the handle becomes CLOSED).          *)
(***************************************************************************)
EXTENDS Integers, Sequences, FiniteSets, Bags, TLC

\* ---- bounds of the model ------------------------------------------------
MaxDevices == 2          \* device connections accepted during a run
MaxClients == 2          \* client connections accepted during a run
MaxDeviceFrames == 2     \* frames a streaming device sends during a run
MaxStatusFrames == 1     \* frames a device sends while its lifecycle is followed
MaxClientMsgs == 1       \* frames the client side sends during a run
MaxCommands == 2         \* commands the clients send when commands are compared
MaxNow == 90000          \* last clock value reached

\* ---- program constants --------------------------------------------------
heartbeatInterval == 30000
esp32TimeoutInterval == 60000

DeviceHandles == 1..MaxDevices
ClientHandles == (MaxDevices + 1)..(MaxDevices + MaxClients)
Handles == DeviceHandles \cup ClientHandles
Null == 0
Users == {"u1", "u2"}
NoUser == ""
NoTime == -1

VARIABLES
  now,            \* Date.now()
  ws,             \* per handle: readyState, kind, userId, isAlive, close()/terminate() calls
  outbox,         \* per handle: the messages handed to ws.send, in order
  clients,        \* this.clients : userId -> handle (Null = no entry)
  esp32Client,    \* this.esp32Client
  esp32Status,    \* this.esp32Status
  broadcasts,     \* the messages passed to broadcastToClients (a bag)
  saves,          \* the readings on which save() was called, with their outcome
  awaitingPong,   \* clients the last heartbeat visited that have not ponged since
  queries,        \* history queries in flight at the sensor store (requesting userId)
  deviceFrames,   \* number of frames the device side has sent
  clientMsgs,     \* number of frames the client side has sent
  upgrade,        \* the last HTTP upgrade request handled, and its outcome
  event           \* the callback the event loop ran last, with its arguments

vars == <<now, ws, outbox, clients, esp32Client, esp32Status, broadcasts,
          saves, awaitingPong, queries, deviceFrames, clientMsgs, upgrade,
          event>>

\* ---- messages -----------------------------------------------------------
\* One record shape for every outbound envelope; fields a type does not
\* carry keep their blank value.  The timestamp field is kept on the
\* messages that carry data (sensor-data, audio-data) and left blank on the
\* status notifications.
BlankMsg ==
  [type |-> "", status |-> "", sensorType |-> "", data |-> 0,
   timestamp |-> NoTime, deviceId |-> "", command |-> "", requestId |-> NoTime,
   fromUserId |-> NoUser, userId |-> NoUser, connected |-> FALSE,
   isStreaming |-> FALSE, lastSeen |-> NoTime, deviceName |-> "",
   sensorTypes |-> <<>>, dataSize |-> 0]

BlankFrame ==
  [fmt |-> "json", type |-> "", sensorType |-> "", data |-> 0,
   deviceId |-> "", timestamp |-> NoTime, isStreaming |-> FALSE,
   deviceName |-> "", sensorTypes |-> <<>>, batteryLevel |-> NoTime,
   status |-> "", command |-> "", size |-> 0]

\* an entry of the event variable
Ev(op, h, frame, n) == [op |-> op, h |-> h, frame |-> frame, n |-> n]

NoDeviceInfo ==
  [set |-> FALSE, deviceName |-> "", sensorTypes |-> <<>>,
   batteryLevel |-> NoTime, status |-> ""]

\* ---- the ws library: one connection -------------------------------------
NewSocket ==
  [readyState |-> "NONE", kind |-> "none", userId |-> NoUser, isAlive |-> TRUE,
   readable |-> TRUE, closeCalls |-> 0, terminated |-> FALSE,
   sendThrows |-> FALSE, probed |-> FALSE]

\* frames and pongs of the peer are delivered while the socket is OPEN, and
\* after a local close() until the peer answers it
Receiving(w, h) == w[h].readable /\ w[h].readyState \in {"OPEN", "CLOSING"}

IsOpen(w, h) == h # Null /\ w[h].readyState = "OPEN"

\* ws.close(): an OPEN socket starts its closing handshake
wsClose(w, h) ==
  [w EXCEPT ![h].readyState = IF @ = "OPEN" THEN "CLOSING" ELSE @,
            ![h].closeCalls = @ + 1]

\* ws.terminate(): the socket is destroyed, 'close' follows later
terminateSocket(s) ==
  [s EXCEPT !.readyState = IF @ = "CLOSED" THEN @ ELSE "CLOSING",
            !.readable = FALSE, !.terminated = TRUE]

wsTerminate(w, h) ==
  [w EXCEPT ![h] = terminateSocket(@)]

\* ws.send on an OPEN socket
wsSend(ob, h, msg) == [ob EXCEPT ![h] = Append(@, msg)]

\* the next handle the server hands to the 'connection' event
Unused(w, pool) == {h \in pool : w[h].readyState = "NONE"}
NextHandle(w, pool) ==
  CHOOSE h \in Unused(w, pool) : \A g \in Unused(w, pool) : h <= g

\* ---- utility methods ----------------------------------------------------
\* ws.send on an OPEN socket throws (sendThrows) or hands the message over
sendToESP32Ok(slot, w) == IsOpen(w, slot) /\ ~w[slot].sendThrows

sendToESP32(slot, w, ob, msg) ==
  IF sendToESP32Ok(slot, w) THEN wsSend(ob, slot, msg) ELSE ob

sendToUserOk(cl, w, userId) ==
  cl[userId] # Null /\ IsOpen(w, cl[userId]) /\ ~w[cl[userId]].sendThrows

\* client.send threw inside sendToUser
sendThrew(cl, w, userId) ==
  cl[userId] # Null /\ IsOpen(w, cl[userId]) /\ w[cl[userId]].sendThrows

sendToUser(cl, w, ob, userId, msg) ==
  IF sendToUserOk(cl, w, userId) THEN wsSend(ob, cl[userId], msg) ELSE ob

\* forEach over this.clients, sendToUser on each entry
broadcastToClients(cl, w, ob, msg) ==
  [h \in Handles |->
     IF \E u \in Users : cl[u] = h /\ sendToUserOk(cl, w, u)
       THEN Append(ob[h], msg) ELSE ob[h]]

\* a call of broadcastToClients, recorded
logBroadcast(b, msg) == b (+) SetToBag({msg})

successCount(cl, w) == Cardinality({u \in Users : sendToUserOk(cl, w, u)})

\* variant: a duplicate login leaves the earlier connection alone
addClientClose_Keep(cl, w, userId) == w

addClientClose(cl, w, userId) ==
  IF cl[userId] # Null THEN wsClose(w, cl[userId]) ELSE w

addClient(cl, userId, h) == [cl EXCEPT ![userId] = h]

removeClient(cl, userId) == [cl EXCEPT ![userId] = Null]

\* variant: a client whose send threw stays registered
sendToUserClients_Keep(cl, w, userId) == cl

\* the registry after sendToUser(userId, ...): the catch removes the client
sendToUserClients(cl, w, userId) ==
  IF sendThrew(cl, w, userId) THEN removeClient(cl, userId) ELSE cl

\* the registry after broadcastToClients: sendToUser on every entry
broadcastClients(cl, w) ==
  [u \in Users |-> sendToUserClients(cl, w, u)[u]]

\* ---- the upgrade request and the process configuration ------------------
\* A credential as the request carries it: none (""), one the verifier
\* rejects, one whose payload has no id, one whose id is no user's, or the
\* token of a user.
Tokens == {"", "bad", "noid", "ghost"} \cup Users

DevicePath == "/esp32"

Origins == {"", "http://localhost:3000", "http://evil.example"}

\* request.url's path and token parameter, and the three headers read
NoRequest ==
  [path |-> "", origin |-> "", query |-> "", protocol |-> "",
   authorization |-> ""]

Requests ==
  { [NoRequest EXCEPT !.path = p, !.query = t] :
      p \in {DevicePath, "/ws"}, t \in Tokens }
  \cup
  { [NoRequest EXCEPT !.path = p, !.origin = o, !.query = t] :
      p \in {DevicePath, "/ws"}, o \in Origins, t \in {"", "u1"} }
  \cup
  { [NoRequest EXCEPT !.path = p, !.protocol = "u1"] : p \in {DevicePath, "/ws"} }
  \cup
  { [NoRequest EXCEPT !.path = "/ws", !.authorization = "u2"],
    [NoRequest EXCEPT !.path = "/ws", !.query = "bad", !.protocol = "u1"] }

\* process.env.NODE_ENV and the allow-list isOriginAllowed builds from the
\* configuration
Production ==
  [development |-> FALSE, allowedOrigins |-> {"http://localhost:3000"}]

Environments ==
  { [development |-> d, allowedOrigins |-> a] :
      d \in BOOLEAN,
      a \in { {"http://localhost:3000"}, {"*", "http://localhost:3000"} } }

NoUpgrade(env) ==
  [request |-> NoRequest, response |-> 0, verified |-> FALSE, env |-> env]

\* variant: a frame the router cannot route is answered with an error
logUnhandled_Reply(w, ob, h) ==
  IF IsOpen(w, h)
    THEN wsSend(ob, h, [BlankMsg EXCEPT !.type = "error",
                                         !.status = "Unknown message"])
    ELSE ob

\* the default branch and the catch of the routers: the frame is logged
logUnhandled(w, ob, h) == ob

\* ---- initial state ------------------------------------------------------
\* the state the constructor leaves, whatever the configuration
InitGateway ==
  /\ now = 0
  /\ ws = [h \in Handles |-> NewSocket]
  /\ outbox = [h \in Handles |-> <<>>]
  /\ clients = [u \in Users |-> Null]
  /\ esp32Client = Null
  /\ esp32Status = [connected |-> FALSE, lastSeen |-> NoTime,
                    deviceInfo |-> NoDeviceInfo, isStreaming |-> FALSE]
  /\ broadcasts = EmptyBag
  /\ saves = <<>>
  /\ awaitingPong = {}
  /\ queries = <<>>
  /\ deviceFrames = 0
  /\ clientMsgs = 0
  /\ event = Ev("initialize", Null, BlankFrame, 0)

Init == InitGateway /\ upgrade = NoUpgrade(Production)

\* the gateway started under any configuration
InitAnyEnv == InitGateway /\ \E env \in Environments : upgrade = NoUpgrade(env)

\* ---- the clock ----------------------------------------------------------
Advance ==
  /\ now + heartbeatInterval <= MaxNow
  /\ now' = now + heartbeatInterval
  /\ event' = Ev("advance", Null, BlankFrame, 0)
  /\ UNCHANGED <<upgrade, ws, outbox, clients, esp32Client, esp32Status,
                 broadcasts, saves, awaitingPong, queries, deviceFrames,
                 clientMsgs>>

\* ---- device connection --------------------------------------------------
\* variant: the previous device connection is left as it is
closePrevious_Keep(slot, w) == w

closePrevious(slot, w) == IF IsOpen(w, slot) THEN wsClose(w, slot) ELSE w

handleESP32Connection(h) ==
  LET w1 == closePrevious(esp32Client, ws)
      w2 == [w1 EXCEPT ![h] = [NewSocket EXCEPT !.readyState = "OPEN",
                                                !.kind = "esp32"]]
      m1 == [BlankMsg EXCEPT !.type = "connection-established"]
      m2 == [BlankMsg EXCEPT !.type = "esp32-status", !.status = "connected"]
      o1 == sendToESP32(h, w2, outbox, m1)
  IN /\ event' = Ev("esp32-connection", h, BlankFrame, 0)
     /\ ws' = w2
     /\ esp32Client' = h
     /\ esp32Status' = [esp32Status EXCEPT !.connected = TRUE, !.lastSeen = now]
     /\ outbox' = broadcastToClients(clients, w2, o1, m2)
     /\ clients' = broadcastClients(clients, w2)
     /\ broadcasts' = logBroadcast(broadcasts, m2)
     /\ UNCHANGED <<now, saves, awaitingPong, queries, deviceFrames, clientMsgs>>

\* the 'connection' event of an upgrade on the device path
ESP32Connect ==
  /\ Unused(ws, DeviceHandles) # {}
  /\ handleESP32Connection(NextHandle(ws, DeviceHandles))
  /\ UNCHANGED upgrade

disconnectedMsg ==
  [BlankMsg EXCEPT !.type = "esp32-status", !.status = "disconnected"]

\* variant: the disconnect leaves the streaming flag as it is
disconnectStatus_KeepsStreaming(st) == [st EXCEPT !.connected = FALSE]

\* variant: the disconnect leaves the connected flag set
disconnectStatus_StaysConnected(st) == [st EXCEPT !.isStreaming = FALSE]

disconnectStatus(st) == [st EXCEPT !.connected = FALSE, !.isStreaming = FALSE]

\* the body of handleESP32Disconnect, on socket table w
handleESP32Disconnect(w) ==
  /\ ws' = w
  /\ esp32Client' = Null
  /\ esp32Status' = disconnectStatus(esp32Status)
  /\ outbox' = broadcastToClients(clients, w, outbox, disconnectedMsg)
  /\ clients' = broadcastClients(clients, w)
  /\ broadcasts' = logBroadcast(broadcasts, disconnectedMsg)
  /\ UNCHANGED <<now, upgrade, saves, awaitingPong, queries, deviceFrames, clientMsgs>>

\* what handleESP32Disconnect makes of the registry, the slot and the status
\* (g), the sockets being w
clearDevice(g, w) ==
  [clients |-> broadcastClients(g.clients, w),
   esp32Client |-> Null,
   esp32Status |-> disconnectStatus(g.esp32Status)]

\* what removeClient(userId) makes of them
removeFrom(g, userId) == [g EXCEPT !.clients = removeClient(@, userId)]

\* the peer or the network ends a connection: the socket leaves OPEN
TransportClosing(h) ==
  /\ ws[h].readyState = "OPEN"
  /\ ws' = [ws EXCEPT ![h].readyState = "CLOSING", ![h].readable = FALSE]
  /\ event' = Ev("transport-closing", h, BlankFrame, 0)
  /\ UNCHANGED <<now, upgrade, outbox, clients, esp32Client, esp32Status, broadcasts,
                 saves, awaitingPong, queries, deviceFrames, clientMsgs>>

\* ws.on("close") of a device connection
ESP32Close(h) ==
  /\ ws[h].kind = "esp32"
  /\ ws[h].readyState = "CLOSING"
  /\ event' = Ev("esp32-close", h, BlankFrame, 0)
  /\ handleESP32Disconnect([ws EXCEPT ![h].readyState = "CLOSED",
                                      ![h].readable = FALSE])

\* ws.on("error") of a device connection: the library leaves OPEN, then emits
ESP32Error(h) ==
  /\ ws[h].kind = "esp32"
  /\ ws[h].readyState = "OPEN"
  /\ event' = Ev("esp32-error", h, BlankFrame, 0)
  /\ handleESP32Disconnect([ws EXCEPT ![h].readyState = "CLOSING",
                                      ![h].readable = FALSE])

\* variant: the device is not marked as seen
touchLastSeen_Keep(st, t) == st

\* variant: a device that is heard again counts as connected again
touchLastSeen_Revives(st, t) == [st EXCEPT !.lastSeen = t, !.connected = TRUE]

\* this.esp32Status.lastSeen = new Date()
touchLastSeen(st, t) == [st EXCEPT !.lastSeen = t]

\* ws.on("pong") of a device connection
ESP32Pong(h) ==
  /\ ws[h].kind = "esp32"
  /\ Receiving(ws, h)
  /\ event' = Ev("esp32-pong", h, BlankFrame, 0)
  /\ esp32Status' = touchLastSeen(esp32Status, now)
  /\ UNCHANGED <<now, upgrade, ws, outbox, clients, esp32Client, broadcasts, saves,
                 awaitingPong, queries, deviceFrames, clientMsgs>>

\* ---- client connection --------------------------------------------------
\* variant: the greeting carries no device status
connectionMsg_NoStatus(userId) ==
  [BlankMsg EXCEPT !.type = "connection", !.status = "authenticated",
                   !.userId = userId]

connectionMsg(userId) ==
  [BlankMsg EXCEPT !.type = "connection", !.status = "authenticated",
                   !.userId = userId, !.connected = esp32Status.connected,
                   !.isStreaming = esp32Status.isStreaming,
                   !.lastSeen = esp32Status.lastSeen]

handleClientConnection(h, userId) ==
  LET w1 == [ws EXCEPT ![h] = [NewSocket EXCEPT !.readyState = "OPEN",
                                                !.kind = "client",
                                                !.userId = userId]]
      o1 == wsSend(outbox, h, connectionMsg(userId))
      w2 == addClientClose(clients, w1, userId)
  IN /\ event' = Ev("client-connection", h, BlankFrame, 0)
     /\ outbox' = o1
     /\ ws' = [w2 EXCEPT ![h].isAlive = TRUE]
     /\ clients' = addClient(clients, userId, h)
     /\ UNCHANGED <<now, esp32Client, esp32Status, broadcasts, saves,
                    awaitingPong, queries, deviceFrames, clientMsgs>>

\* the 'connection' event of an upgrade that verifyClient resolved to a user
ClientConnect ==
  /\ Unused(ws, ClientHandles) # {}
  /\ \E u \in Users : handleClientConnection(NextHandle(ws, ClientHandles), u)
  /\ UNCHANGED upgrade

\* ws.on("close") of a client connection
ClientClose(h) ==
  /\ ws[h].kind = "client"
  /\ ws[h].readyState = "CLOSING"
  /\ event' = Ev("client-close", h, BlankFrame, 0)
  /\ ws' = [ws EXCEPT ![h].readyState = "CLOSED", ![h].readable = FALSE]
  /\ clients' = removeClient(clients, ws[h].userId)
  /\ UNCHANGED <<now, upgrade, outbox, esp32Client, esp32Status, broadcasts, saves,
                 awaitingPong, queries, deviceFrames, clientMsgs>>

\* ws.on("error") of a client connection
ClientError(h) ==
  /\ ws[h].kind = "client"
  /\ ws[h].readyState = "OPEN"
  /\ event' = Ev("client-error", h, BlankFrame, 0)
  /\ ws' = [ws EXCEPT ![h].readyState = "CLOSING", ![h].readable = FALSE]
  /\ clients' = removeClient(clients, ws[h].userId)
  /\ UNCHANGED <<now, upgrade, outbox, esp32Client, esp32Status, broadcasts, saves,
                 awaitingPong, queries, deviceFrames, clientMsgs>>

\* ws.on("pong") of a client connection
ClientPong(h) ==
  /\ ws[h].kind = "client"
  /\ Receiving(ws, h)
  /\ event' = Ev("client-pong", h, BlankFrame, 0)
  /\ ws' = [ws EXCEPT ![h].isAlive = TRUE, ![h].probed = FALSE]
  /\ awaitingPong' = awaitingPong \ {h}
  /\ UNCHANGED <<now, upgrade, outbox, clients, esp32Client, esp32Status, broadcasts,
                 saves, queries, deviceFrames, clientMsgs>>

\* the transport of an open connection breaks so that its send() throws
SendFault(h) ==
  /\ ws[h].kind \in {"client", "esp32"}
  /\ ws[h].readyState = "OPEN"
  /\ ~ws[h].sendThrows
  /\ event' = Ev("send-fault", h, BlankFrame, 0)
  /\ ws' = [ws EXCEPT ![h].sendThrows = TRUE]
  /\ UNCHANGED <<now, upgrade, outbox, clients, esp32Client, esp32Status,
                 broadcasts, saves, awaitingPong, queries, deviceFrames,
                 clientMsgs>>

\* ---- the handshake ------------------------------------------------------
isOriginAllowed(origin, env) ==
  \/ origin = ""
  \/ env.development
  \/ origin \in env.allowedOrigins
  \/ "*" \in env.allowedOrigins

\* query parameter || protocol header || second word of the authorization header
extractToken(request) ==
  IF request.query # "" THEN request.query
  ELSE IF request.protocol # "" THEN request.protocol
  ELSE request.authorization

\* jwt.verify: rejects, or resolves to the decoded payload
jwtVerify(token) ==
  CASE token = "bad" -> [ok |-> FALSE, id |-> ""]
    [] token = "noid" -> [ok |-> TRUE, id |-> ""]
    [] OTHER -> [ok |-> TRUE, id |-> token]

\* User.findById: the user document, or null
findById(id) == IF id \in Users THEN id ELSE NoUser

verifyClient(request, env) ==
  LET token == extractToken(request)
      decoded == jwtVerify(token)
  IN IF ~isOriginAllowed(request.origin, env)
       THEN [user |-> NoUser, error |-> "Origin not allowed"]
     ELSE IF token = ""
       THEN [user |-> NoUser, error |-> "No token provided"]
     ELSE IF ~decoded.ok
       THEN [user |-> NoUser, error |-> "jwt rejected"]
     ELSE IF decoded.id = ""
       THEN [user |-> NoUser, error |-> "Invalid token payload"]
     ELSE [user |-> findById(decoded.id), error |-> ""]

\* variant: no path is the device path
isDevicePath_Never(path) == FALSE

isDevicePath(path) == path = DevicePath

\* variant: only a verification error fails the upgrade
rejectUpgrade_ErrorOnly(v) == v.error # ""

\* error || !user
rejectUpgrade(v) == v.error # "" \/ v.user = NoUser

\* the 'connection' callback for a request that carries no user: close(1008),
\* no handler attached, nothing registered
closeUnauthenticated(h) ==
  /\ event' = Ev("connection-refused", h, BlankFrame, 0)
  /\ ws' = [ws EXCEPT ![h] = [NewSocket EXCEPT !.readyState = "CLOSING",
                                               !.kind = "anonymous",
                                               !.closeCalls = 1]]
  /\ UNCHANGED <<now, outbox, clients, esp32Client, esp32Status, broadcasts,
                 saves, awaitingPong, queries, deviceFrames, clientMsgs>>

\* handleUpgrade(request, socket, head), the 'connection' event it emits
\* included
handleUpgrade(request) ==
  IF isDevicePath(request.path)
    THEN /\ Unused(ws, DeviceHandles) # {}
         /\ upgrade' = [upgrade EXCEPT !.request = request, !.response = 101,
                                       !.verified = FALSE]
         /\ handleESP32Connection(NextHandle(ws, DeviceHandles))
    ELSE LET v == verifyClient(request, upgrade.env)
         IN IF rejectUpgrade(v)
              THEN /\ upgrade' = [upgrade EXCEPT !.request = request,
                                                 !.response = 401,
                                                 !.verified = TRUE]
                   /\ event' = Ev("upgrade-rejected", Null, BlankFrame, 0)
                   /\ UNCHANGED <<now, ws, outbox, clients, esp32Client,
                                  esp32Status, broadcasts, saves, awaitingPong,
                                  queries, deviceFrames, clientMsgs>>
              ELSE /\ Unused(ws, ClientHandles) # {}
                   /\ upgrade' = [upgrade EXCEPT !.request = request,
                                                 !.response = 101,
                                                 !.verified = TRUE]
                   /\ IF v.user = NoUser
                        THEN closeUnauthenticated(NextHandle(ws, ClientHandles))
                        ELSE handleClientConnection(
                               NextHandle(ws, ClientHandles), v.user)

\* server.on("upgrade")
Upgrade == \E request \in Requests : handleUpgrade(request)

\* ---- device frames ------------------------------------------------------
\* A frame as the 'message' event delivers it: a Buffer ("binary"), a string
\* holding a JSON object ("json") or a string that does not parse
\* ("malformed").  A blank field is a field the object does not carry.
\* the frames the device sends; n numbers them in sending order
SensorFrames(n) ==
  { [BlankFrame EXCEPT !.type = "sensor-data", !.sensorType = "temp",
                       !.data = n] }

UntypedSensorFrames(n) ==
  { [BlankFrame EXCEPT !.type = "sensor-data", !.data = n] }

\* a sensor-data message that carries a deviceId and a timestamp of its own
StampedSensorFrames(n) ==
  { [BlankFrame EXCEPT !.type = "sensor-data", !.sensorType = "temp",
                       !.data = n, !.deviceId = "esp32-other",
                       !.timestamp = 5] }

ReadingFrames(n) ==
  SensorFrames(n) \cup UntypedSensorFrames(n) \cup StampedSensorFrames(n)

PingFrames(n) == { [BlankFrame EXCEPT !.type = "ping"] }

StreamingFrames(n) ==
  { [BlankFrame EXCEPT !.type = "status-update", !.isStreaming = TRUE,
                       !.batteryLevel = 80] }

StatusFrames(n) ==
  { [BlankFrame EXCEPT !.type = "status-update"] }
    \cup StreamingFrames(n) \cup PingFrames(n)

InfoFrames(n) ==
  { [BlankFrame EXCEPT !.type = "device-info", !.deviceName = "S1",
                       !.sensorTypes = <<"temp">>] }

\* the device announces itself under one name, then under another
AnnounceFrames(n) ==
  InfoFrames(n) \cup
  { [BlankFrame EXCEPT !.type = "device-info", !.deviceName = "S2",
                       !.sensorTypes = <<"temp", "hum">>] }

\* frames the device router drops
DroppedFrames(n) ==
  { [BlankFrame EXCEPT !.fmt = "malformed"],
    [BlankFrame EXCEPT !.type = "reboot"] }

\* the byte lengths of the audio chunks drawn
AudioSizes == {0, 4}

\* Buffers: payload n, of each length drawn
BinaryFrames(n) ==
  { [BlankFrame EXCEPT !.fmt = "binary", !.data = n, !.size = k] :
      k \in AudioSizes }

OtherFrames(n) ==
  { [BlankFrame EXCEPT !.fmt = "binary", !.data = n, !.size = 4] }
    \cup DroppedFrames(n) \cup InfoFrames(n)

DeviceFrameSet(n) ==
  SensorFrames(n) \cup UntypedSensorFrames(n) \cup StatusFrames(n)
    \cup OtherFrames(n)

\* x || d on strings
OrElse(x, d) == IF x = "" THEN d ELSE x

\* the sensorData object of handleSensorData: defaults first, then ...message
makeSensorData(message, t) ==
  [timestamp |-> IF message.timestamp # NoTime THEN message.timestamp ELSE t,
   sensorType |-> OrElse(message.sensorType, "unknown"),
   data |-> message.data,
   deviceId |-> OrElse(message.deviceId, "esp32-main")]

sensorDataMsg(sensorData) ==
  [BlankMsg EXCEPT !.type = "sensor-data",
                   !.timestamp = sensorData.timestamp,
                   !.sensorType = sensorData.sensorType,
                   !.data = sensorData.data,
                   !.deviceId = sensorData.deviceId]

\* saveSensorDataToDatabase up to its await: one document, one save() call
saveSensorDataToDatabase(sv, sensorData) ==
  Append(sv, [deviceId |-> sensorData.deviceId,
              sensorType |-> sensorData.sensorType,
              data |-> sensorData.data,
              timestamp |-> sensorData.timestamp,
              outcome |-> "pending"])

\* handleSensorData up to its await
handleSensorData(message) ==
  /\ saves' = saveSensorDataToDatabase(saves, makeSensorData(message, now))
  /\ UNCHANGED <<outbox, clients, broadcasts>>

\* variant: the name of the message is not taken over
deviceInfoOf_DefaultName(message) ==
  [set |-> TRUE,
   deviceName |-> "ESP32-Sensor",
   sensorTypes |-> message.sensorTypes,
   batteryLevel |-> message.batteryLevel,
   status |-> ""]

deviceInfoOf(message) ==
  [set |-> TRUE,
   deviceName |-> OrElse(message.deviceName, "ESP32-Sensor"),
   sensorTypes |-> message.sensorTypes,
   batteryLevel |-> message.batteryLevel,
   status |-> ""]

deviceInfoMsg(info) ==
  [BlankMsg EXCEPT !.type = "esp32-device-info", !.deviceName = info.deviceName,
                   !.sensorTypes = info.sensorTypes]

statusUpdateOf(st, message) ==
  [st EXCEPT !.isStreaming = message.isStreaming,
             !.deviceInfo = [@ EXCEPT !.set = TRUE,
                                      !.batteryLevel = message.batteryLevel,
                                      !.status = OrElse(message.status, "online")]]

statusUpdateMsg(st) ==
  [BlankMsg EXCEPT !.type = "esp32-status-update", !.connected = st.connected,
                   !.isStreaming = st.isStreaming, !.lastSeen = st.lastSeen]

\* variant: the broadcast leaves the size of the chunk out
audioDataMsg_NoSize(frame) ==
  [BlankMsg EXCEPT !.type = "audio-data", !.timestamp = now,
                   !.data = frame.data]

\* dataSize: data.length of the Buffer; data: its base64 text, kept as the
\* payload it encodes
audioDataMsg(frame) ==
  [BlankMsg EXCEPT !.type = "audio-data", !.timestamp = now,
                   !.dataSize = frame.size, !.data = frame.data]

\* handleESP32Message(data)
handleESP32Message(frame) ==
  LET seen == touchLastSeen(esp32Status, now)
  IN
  /\ UNCHANGED <<now, upgrade, ws, esp32Client, awaitingPong, queries, clientMsgs>>
  /\ CASE frame.fmt = "binary" ->
            /\ esp32Status' = seen
            /\ outbox' = broadcastToClients(clients, ws, outbox, audioDataMsg(frame))
            /\ clients' = broadcastClients(clients, ws)
            /\ broadcasts' = logBroadcast(broadcasts, audioDataMsg(frame))
            /\ UNCHANGED saves
       [] frame.fmt = "malformed" ->
            /\ esp32Status' = seen
            /\ outbox' = logUnhandled(ws, outbox, esp32Client)
            /\ UNCHANGED <<clients, broadcasts, saves>>
       [] frame.fmt = "json" /\ frame.type = "device-info" ->
            LET st == [seen EXCEPT !.deviceInfo = deviceInfoOf(frame)]
            IN /\ esp32Status' = st
               /\ outbox' = broadcastToClients(clients, ws, outbox,
                                               deviceInfoMsg(st.deviceInfo))
               /\ clients' = broadcastClients(clients, ws)
               /\ broadcasts' = logBroadcast(broadcasts, deviceInfoMsg(st.deviceInfo))
               /\ UNCHANGED saves
       [] frame.fmt = "json" /\ frame.type = "sensor-data" ->
            /\ esp32Status' = seen
            /\ handleSensorData(frame)
       [] frame.fmt = "json" /\ frame.type = "status-update" ->
            LET st == statusUpdateOf(seen, frame)
            IN /\ esp32Status' = st
               /\ outbox' = broadcastToClients(clients, ws, outbox,
                                               statusUpdateMsg(st))
               /\ clients' = broadcastClients(clients, ws)
               /\ broadcasts' = logBroadcast(broadcasts, statusUpdateMsg(st))
               /\ UNCHANGED saves
       [] frame.fmt = "json" /\ frame.type = "ping" ->
            /\ esp32Status' = seen
            /\ outbox' = sendToESP32(esp32Client, ws, outbox,
                           [BlankMsg EXCEPT !.type = "pong"])
            /\ UNCHANGED <<clients, broadcasts, saves>>
       [] OTHER ->
            /\ esp32Status' = seen
            /\ outbox' = logUnhandled(ws, outbox, esp32Client)
            /\ UNCHANGED <<clients, broadcasts, saves>>

\* ws.on("message") of a device connection, the frame drawn from frames, at
\* most max frames in a run
ESP32Message(h, frames, max) ==
  /\ ws[h].kind = "esp32"
  /\ Receiving(ws, h)
  /\ deviceFrames < max
  /\ deviceFrames' = deviceFrames + 1
  /\ \E frame \in frames :
       /\ event' = Ev("esp32-message", h, frame, deviceFrames + 1)
       /\ handleESP32Message(frame)

\* variant: a rejected save() escapes saveSensorDataToDatabase
saveReturns_OnlyIfSaved(ok) == ok

\* the try/catch of saveSensorDataToDatabase: the await in handleSensorData
\* returns normally whether save() resolved or rejected
saveReturns(ok) == TRUE

\* newSensorData.save() settles (resolved or rejected) and handleSensorData
\* resumes after its await
SaveSettle(i, ok) ==
  /\ i \in 1..Len(saves)
  /\ saves[i].outcome = "pending"
  /\ event' = Ev("save-settled", Null, BlankFrame, i)
  /\ saves' = [saves EXCEPT ![i].outcome = IF ok THEN "ok" ELSE "failed"]
  /\ IF saveReturns(ok)
       THEN /\ outbox' = broadcastToClients(clients, ws, outbox,
                                            sensorDataMsg(saves[i]))
            /\ clients' = broadcastClients(clients, ws)
            /\ broadcasts' = logBroadcast(broadcasts, sensorDataMsg(saves[i]))
       ELSE UNCHANGED <<outbox, clients, broadcasts>>
  /\ UNCHANGED <<now, upgrade, ws, esp32Client, esp32Status, awaitingPong,
                 queries, deviceFrames, clientMsgs>>

\* ---- client frames ------------------------------------------------------
ControlFrames ==
  { [BlankFrame EXCEPT !.type = "control-esp32", !.command = "start"] }

\* frames the client router drops
UnknownFrames ==
  { [BlankFrame EXCEPT !.fmt = "malformed"],
    [BlankFrame EXCEPT !.type = "subscribe"] }

QueryFrames ==
  { [BlankFrame EXCEPT !.type = "ping"],
    [BlankFrame EXCEPT !.type = "get-esp32-status"],
    [BlankFrame EXCEPT !.type = "get-sensor-data", !.sensorType = "temp"] }
    \cup UnknownFrames

ClientFrameSet == ControlFrames \cup QueryFrames

errorMsg(text) == [BlankMsg EXCEPT !.type = "error", !.status = text]

commandMsg(userId, message) ==
  [BlankMsg EXCEPT !.type = "command", !.command = message.command,
                   !.requestId = now, !.fromUserId = userId]

commandSentMsg(message) ==
  [BlankMsg EXCEPT !.type = "command-sent", !.command = message.command]

\* variant: a device marked offline is not relayed to
deviceAvailable_WhenConnected(slot, w) ==
  slot # Null /\ w[slot].readyState = "OPEN" /\ esp32Status.connected

\* the guard of handleControlESP32: is there a device to relay to
deviceAvailable(slot, w) == slot # Null /\ w[slot].readyState = "OPEN"

handleControlESP32(userId, message) ==
  /\ clients' = sendToUserClients(clients, ws, userId)
  /\ IF ~deviceAvailable(esp32Client, ws)
       THEN outbox' = sendToUser(clients, ws, outbox, userId,
                                 errorMsg("ESP32 not connected"))
       ELSE outbox' = sendToUser(clients, ws,
                        sendToESP32(esp32Client, ws, outbox,
                                    commandMsg(userId, message)),
                        userId, commandSentMsg(message))

statusResponseMsg ==
  [BlankMsg EXCEPT !.type = "esp32-status-response",
                   !.connected = esp32Status.connected,
                   !.isStreaming = esp32Status.isStreaming,
                   !.lastSeen = esp32Status.lastSeen]

\* handleClientMessage(ws, userId, data)
handleClientMessage(h, userId, frame) ==
  /\ UNCHANGED <<now, upgrade, ws, esp32Client, esp32Status, broadcasts, saves,
                 awaitingPong, deviceFrames>>
  /\ CASE frame.fmt = "malformed" ->
            /\ outbox' = logUnhandled(ws, outbox, h)
            /\ UNCHANGED <<clients, queries>>
       [] frame.fmt = "json" /\ frame.type = "ping" ->
            /\ outbox' = IF IsOpen(ws, h) /\ ~ws[h].sendThrows
                           THEN wsSend(outbox, h, [BlankMsg EXCEPT !.type = "pong"])
                           ELSE outbox
            /\ UNCHANGED <<clients, queries>>
       [] frame.fmt = "json" /\ frame.type = "get-esp32-status" ->
            /\ outbox' = sendToUser(clients, ws, outbox, userId, statusResponseMsg)
            /\ clients' = sendToUserClients(clients, ws, userId)
            /\ UNCHANGED queries
       [] frame.fmt = "json" /\ frame.type = "get-sensor-data" ->
            /\ queries' = Append(queries, [userId |-> userId,
                                           sensorType |-> frame.sensorType])
            /\ UNCHANGED <<outbox, clients>>
       [] frame.fmt = "json" /\ frame.type = "control-esp32" ->
            /\ handleControlESP32(userId, frame)
            /\ UNCHANGED queries
       [] OTHER ->
            /\ outbox' = logUnhandled(ws, outbox, h)
            /\ UNCHANGED <<clients, queries>>

\* ws.on("message") of a client connection, the frame drawn from frames, at
\* most max frames in a run
ClientMessage(h, frames, max) ==
  /\ ws[h].kind = "client"
  /\ Receiving(ws, h)
  /\ clientMsgs < max
  /\ clientMsgs' = clientMsgs + 1
  /\ \E frame \in frames :
       /\ event' = Ev("client-message", h, frame, clientMsgs + 1)
       /\ handleClientMessage(h, ws[h].userId, frame)

RemoveAt(q, i) == [j \in 1..(Len(q) - 1) |-> IF j < i THEN q[j] ELSE q[j + 1]]

\* the readings a history query returns: saved, of the fixed device, of the type
historyOf(sv, sensorType) ==
  Cardinality({i \in 1..Len(sv) : /\ sv[i].outcome = "ok"
                                  /\ sv[i].deviceId = "esp32-main"
                                  /\ sv[i].sensorType = sensorType})

\* SensorData.find(...) of handleGetSensorData settles
QuerySettle(i, ok) ==
  /\ i \in 1..Len(queries)
  /\ event' = Ev("query-settled", Null, BlankFrame, i)
  /\ queries' = RemoveAt(queries, i)
  /\ outbox' = sendToUser(clients, ws, outbox, queries[i].userId,
                 IF ok THEN [BlankMsg EXCEPT !.type = "sensor-data-history",
                                !.sensorType = queries[i].sensorType,
                                !.data = historyOf(saves, queries[i].sensorType)]
                       ELSE errorMsg("Failed to retrieve sensor data"))
  /\ clients' = sendToUserClients(clients, ws, queries[i].userId)
  /\ UNCHANGED <<now, upgrade, ws, esp32Client, esp32Status, broadcasts, saves,
                 awaitingPong, deviceFrames, clientMsgs>>

\* ---- timers -------------------------------------------------------------
Registered(cl) == {cl[u] : u \in Users} \ {Null}

\* variant: the heartbeat probes again instead of terminating
heartbeatClient_ProbeOnly(s) == [s EXCEPT !.isAlive = FALSE, !.probed = TRUE]

\* variant: the alive flag is reset and no ping is issued
heartbeatClient_NoPing(s) ==
  IF s.isAlive = FALSE
    THEN terminateSocket(s)
    ELSE [s EXCEPT !.isAlive = FALSE]

\* one client of the heartbeat's forEach; probed: ping() has been called on
\* the connection and no pong has arrived since
heartbeatClient(s) ==
  IF s.isAlive = FALSE
    THEN terminateSocket(s)
    ELSE [s EXCEPT !.isAlive = FALSE, !.probed = TRUE]

\* the setInterval callback of startHeartbeat
Heartbeat ==
  /\ event' = Ev("heartbeat", Null, BlankFrame, 0)
  /\ ws' = [h \in Handles |->
              IF h \in Registered(clients) THEN heartbeatClient(ws[h]) ELSE ws[h]]
  /\ awaitingPong' = Registered(clients)
  /\ UNCHANGED <<now, upgrade, outbox, clients, esp32Client, esp32Status, broadcasts,
                 saves, queries, deviceFrames, clientMsgs>>

\* variant: the timeout is taken twice as long
isStale_Doubled(st, t) ==
  st.connected /\ st.lastSeen # NoTime
    /\ t - st.lastSeen > 2 * esp32TimeoutInterval

isStale(st, t) ==
  st.connected /\ st.lastSeen # NoTime /\ t - st.lastSeen > esp32TimeoutInterval

offlineMsg ==
  [BlankMsg EXCEPT !.type = "esp32-status", !.status = "offline",
                   !.lastSeen = esp32Status.lastSeen]

\* variant: the timeout branch closes the silent device connection
timeoutSockets_Close(slot, w) == closePrevious(slot, w)

\* the connections after the timeout branch, which calls nothing on the
\* device connection of the slot
timeoutSockets(slot, w) == w

\* the setInterval callback of startStatusMonitoring
checkESP32Status ==
  /\ event' = Ev("status-check", Null, BlankFrame, 0)
  /\ IF isStale(esp32Status, now)
       THEN /\ esp32Status' = [esp32Status EXCEPT !.connected = FALSE]
            /\ ws' = timeoutSockets(esp32Client, ws)
            /\ outbox' = broadcastToClients(clients, ws, outbox, offlineMsg)
            /\ clients' = broadcastClients(clients, ws)
            /\ broadcasts' = logBroadcast(broadcasts, offlineMsg)
       ELSE UNCHANGED <<esp32Status, ws, outbox, clients, broadcasts>>
  /\ UNCHANGED <<now, upgrade, esp32Client, saves, awaitingPong, queries,
                 deviceFrames, clientMsgs>>

\* ---- the gateway --------------------------------------------------------
\* Every event of the gateway.
Next ==
  \/ Advance
  \/ Upgrade
  \/ ESP32Connect
  \/ ClientConnect
  \/ \E h \in Handles : TransportClosing(h)
  \/ \E h \in Handles : SendFault(h)
  \/ \E h \in DeviceHandles : ESP32Close(h)
  \/ \E h \in DeviceHandles : ESP32Error(h)
  \/ \E h \in DeviceHandles : ESP32Pong(h)
  \/ \E h \in DeviceHandles : ESP32Message(h, DeviceFrameSet(deviceFrames + 1),
                                            MaxDeviceFrames)
  \/ \E i \in 1..MaxDeviceFrames, ok \in BOOLEAN : SaveSettle(i, ok)
  \/ \E h \in ClientHandles : ClientClose(h)
  \/ \E h \in ClientHandles : ClientError(h)
  \/ \E h \in ClientHandles : ClientPong(h)
  \/ \E h \in ClientHandles : ClientMessage(h, ClientFrameSet, MaxClientMsgs)
  \/ \E i \in 1..MaxClientMsgs, ok \in BOOLEAN : QuerySettle(i, ok)
  \/ Heartbeat
  \/ checkESP32Status

Spec == InitAnyEnv /\ [][Next]_vars

\* The device side: its connections, frames, keepalives and the staleness
\* timer.
NextDevice ==
  \/ Advance
  \/ ESP32Connect
  \/ \E h \in DeviceHandles : TransportClosing(h)
  \/ \E h \in DeviceHandles : ESP32Close(h)
  \/ \E h \in DeviceHandles : ESP32Error(h)
  \/ \E h \in DeviceHandles : ESP32Pong(h)
  \/ \E h \in DeviceHandles : ESP32Message(h, StatusFrames(deviceFrames + 1),
                                            MaxStatusFrames)
  \/ checkESP32Status

SpecDevice == Init /\ [][NextDevice]_vars

\* The staleness timer with web clients listening.
NextStale ==
  \/ Advance
  \/ ESP32Connect
  \/ ClientConnect
  \/ \E h \in DeviceHandles : ESP32Pong(h)
  \/ \E h \in DeviceHandles : ESP32Message(h, PingFrames(deviceFrames + 1),
                                            MaxStatusFrames)
  \/ checkESP32Status

SpecStale == Init /\ [][NextStale]_vars

\* The client side: connections, duplicate logins, closes and the heartbeat.
NextClient ==
  \/ ClientConnect
  \/ \E h \in ClientHandles : TransportClosing(h)
  \/ \E h \in ClientHandles : ClientClose(h)
  \/ \E h \in ClientHandles : ClientError(h)
  \/ \E h \in ClientHandles : ClientPong(h)
  \/ Heartbeat

SpecClient == Init /\ [][NextClient]_vars

\* the 'close' event of a closing socket is eventually delivered
SpecClientLive ==
  SpecClient /\ \A h \in ClientHandles : WF_vars(ClientClose(h))

\* The sensor pipeline: the device streams sensor-data to the connected
\* clients, the store settles the saves in any order.
NextSensor ==
  \/ ESP32Connect
  \/ ClientConnect
  \/ \E h \in DeviceHandles : ESP32Message(h, SensorFrames(deviceFrames + 1),
                                            MaxDeviceFrames)
  \/ \E i \in 1..MaxDeviceFrames, ok \in BOOLEAN : SaveSettle(i, ok)

SpecSensor == Init /\ [][NextSensor]_vars

\* The command relay: clients send control-esp32 while the device and the
\* clients connect and disconnect.
NextRelay ==
  \/ ESP32Connect
  \/ ClientConnect
  \/ \E h \in Handles : TransportClosing(h)
  \/ \E h \in DeviceHandles : ESP32Close(h)
  \/ \E h \in ClientHandles : ClientClose(h)
  \/ \E h \in ClientHandles : ClientMessage(h, ControlFrames, MaxClientMsgs)

SpecRelay == Init /\ [][NextRelay]_vars

\* Commands while the send() of the device connection may throw, and several
\* commands within one clock reading.
NextCommand ==
  \/ Advance
  \/ ESP32Connect
  \/ ClientConnect
  \/ \E h \in DeviceHandles : SendFault(h)
  \/ \E h \in ClientHandles : ClientMessage(h, ControlFrames, MaxCommands)

SpecCommand == Init /\ [][NextCommand]_vars

\* Commands to a device that the staleness timer has marked offline.
NextOffline ==
  \/ Advance
  \/ ESP32Connect
  \/ ClientConnect
  \/ \E h \in ClientHandles : ClientMessage(h, ControlFrames, MaxClientMsgs)
  \/ checkESP32Status

SpecOffline == Init /\ [][NextOffline]_vars

\* Broadcasts while the send() of some client connections throws.
NextBroadcast ==
  \/ ESP32Connect
  \/ ClientConnect
  \/ \E h \in ClientHandles : SendFault(h)
  \/ \E h \in DeviceHandles : ESP32Message(h, InfoFrames(deviceFrames + 1),
                                            MaxStatusFrames)

SpecBroadcast == Init /\ [][NextBroadcast]_vars

\* The routers: the device and the clients send frames that cannot be
\* decoded and frames of a type the routers have no case for.
NextRouter ==
  \/ ESP32Connect
  \/ ClientConnect
  \/ \E h \in DeviceHandles : ESP32Message(h, DroppedFrames(deviceFrames + 1),
                                            MaxStatusFrames)
  \/ \E h \in ClientHandles : ClientMessage(h, UnknownFrames, MaxClientMsgs)

SpecRouter == Init /\ [][NextRouter]_vars

\* The device announces itself to the clients that have connected.
NextInfo ==
  \/ ESP32Connect
  \/ ClientConnect
  \/ \E h \in DeviceHandles : ESP32Message(h, AnnounceFrames(deviceFrames + 1),
                                            MaxDeviceFrames)

SpecInfo == Init /\ [][NextInfo]_vars

\* Clients come and go while the device connects and fails: every client is
\* greeted and then served the status broadcasts.
NextWelcome ==
  \/ ESP32Connect
  \/ ClientConnect
  \/ \E h \in DeviceHandles : ESP32Error(h)
  \/ \E h \in ClientHandles : ClientError(h)

SpecWelcome == Init /\ [][NextWelcome]_vars

\* Audio: the device streams binary chunks to the clients as time passes.
NextAudio ==
  \/ Advance
  \/ ESP32Connect
  \/ ClientConnect
  \/ \E h \in DeviceHandles : ESP32Message(h, BinaryFrames(deviceFrames + 1),
                                            MaxStatusFrames)

SpecAudio == Init /\ [][NextAudio]_vars

\* The device is heard: frames of every kind and pongs, as time passes.
NextSeen ==
  \/ Advance
  \/ ESP32Connect
  \/ \E h \in DeviceHandles : ESP32Pong(h)
  \/ \E h \in DeviceHandles : ESP32Message(h, DeviceFrameSet(deviceFrames + 1),
                                            MaxStatusFrames)
  \/ \E i \in 1..MaxStatusFrames, ok \in BOOLEAN : SaveSettle(i, ok)
  \/ checkESP32Status

SpecSeen == Init /\ [][NextSeen]_vars

\* A gateway in service: any device slot, registry and status it can hold,
\* the connections in the slot and in the registry open, the logs empty.
InitInService ==
  /\ now = 0
  /\ outbox = [h \in Handles |-> <<>>]
  /\ broadcasts = EmptyBag
  /\ saves = <<>>
  /\ awaitingPong = {}
  /\ queries = <<>>
  /\ deviceFrames = 0
  /\ clientMsgs = 0
  /\ upgrade = NoUpgrade(Production)
  /\ event = Ev("initialize", Null, BlankFrame, 0)
  /\ \E slot \in DeviceHandles \cup {Null},
        reg \in [Users -> ClientHandles \cup {Null}],
        connected \in BOOLEAN, streaming \in BOOLEAN, heard \in BOOLEAN :
       LET base == [connected |-> connected,
                    lastSeen |-> IF heard THEN now ELSE NoTime,
                    deviceInfo |-> NoDeviceInfo, isStreaming |-> FALSE]
       IN /\ \A u, v \in Users : (u # v /\ reg[u] # Null) => reg[u] # reg[v]
          /\ connected => slot # Null
          /\ (slot # Null \/ streaming) => heard
          /\ esp32Client = slot
          /\ clients = reg
          /\ ws = [h \in Handles |->
                     IF h = slot
                       THEN [NewSocket EXCEPT !.readyState = "OPEN",
                                              !.kind = "esp32"]
                     ELSE IF \E u \in Users : reg[u] = h
                       THEN [NewSocket EXCEPT !.readyState = "OPEN",
                                              !.kind = "client",
                                              !.userId =
                                                 CHOOSE u \in Users : reg[u] = h]
                     ELSE NewSocket]
          /\ esp32Status =
               IF streaming
                 THEN statusUpdateOf(base, CHOOSE f \in StreamingFrames(1) : TRUE)
                 ELSE base

\* The connections of a gateway in service fail and close.
NextClear ==
  \/ \E h \in Handles : TransportClosing(h)
  \/ \E h \in DeviceHandles : ESP32Error(h)
  \/ \E h \in DeviceHandles : ESP32Close(h)
  \/ \E h \in ClientHandles : SendFault(h)
  \/ \E h \in ClientHandles : ClientError(h)
  \/ \E h \in ClientHandles : ClientClose(h)

SpecClear == InitInService /\ [][NextClear]_vars

\* Readings of every shape, as time passes.
NextReading ==
  \/ Advance
  \/ ESP32Connect
  \/ ClientConnect
  \/ \E h \in DeviceHandles : ESP32Message(h, ReadingFrames(deviceFrames + 1),
                                            MaxStatusFrames)
  \/ \E i \in 1..MaxStatusFrames, ok \in BOOLEAN : SaveSettle(i, ok)

SpecReading == Init /\ [][NextReading]_vars

\* The handshake: upgrade requests of every kind under every configuration,
\* one after the other.
NextUpgrade ==
  \/ Upgrade

SpecUpgrade == InitAnyEnv /\ [][NextUpgrade]_vars

\* ---- properties ---------------------------------------------------------
\* a connection whose 'close' event has not been delivered yet
Live(w, h) == h # Null /\ w[h].readyState \in {"OPEN", "CLOSING"}

\* C1: the device slot holds at most one handle (a device handle or nothing),
\* and when a device connection is registered while an open one is in the
\* slot, close() has been called on the previous handle, which is no longer
\* OPEN, by the time the new handle is installed.
C1_SingleDeviceSlot ==
  [][ /\ esp32Client' \in DeviceHandles \cup {Null}
      /\ (event'.op = "esp32-connection" /\ IsOpen(ws, esp32Client)) =>
           /\ esp32Client' = event'.h
           /\ esp32Client' # esp32Client
           /\ ws'[esp32Client].closeCalls = ws[esp32Client].closeCalls + 1
           /\ ws'[esp32Client].readyState = "CLOSING" ]_vars

C1_Witness ==
  /\ event.op = "esp32-connection"
  /\ esp32Client = 2
  /\ ws[1].closeCalls = 1
  /\ ws[1].readyState = "CLOSING"

\* C2 as stated: connected is true exactly when the device slot holds a
\* connection that has not closed.
C2_ConnectedIffLiveDevice ==
  esp32Status.connected <=> Live(ws, esp32Client)

\* C2 amended: connected is true only if the device slot holds a connection
\* that has not closed; the staleness check clears connected and keeps the
\* slot, so the converse is not claimed.
C2_ConnectedOnlyIfLiveDevice ==
  esp32Status.connected => Live(ws, esp32Client)

C2_Witness ==
  /\ esp32Status.connected
  /\ esp32Client = 2
  /\ ws[2].readyState = "OPEN"
  /\ ws[1].readyState = "CLOSED"

\* C3: isStreaming is true only if connected is true, in every reachable
\* state, also after the staleness check and after a status-update that
\* arrives while the device is marked offline.
C3_StreamingOnlyWhileConnected ==
  esp32Status.isStreaming => esp32Status.connected

\* C6: a staleness check that finds the device connected with
\* now - lastSeen above the timeout sets connected to false and broadcasts
\* one esp32-status 'offline' message, which every open registered client
\* receives, while the device slot and every socket stay as they are.
C6_StaleDeviceMarkedOffline ==
  [][ (/\ event'.op = "status-check"
       /\ esp32Status.connected
       /\ esp32Status.lastSeen # NoTime
       /\ now - esp32Status.lastSeen > esp32TimeoutInterval) =>
        /\ ~esp32Status'.connected
        /\ CopiesIn(offlineMsg, broadcasts')
             = CopiesIn(offlineMsg, broadcasts) + 1
        /\ \A u \in Users :
             IsOpen(ws, clients[u]) =>
               outbox'[clients[u]] = Append(outbox[clients[u]], offlineMsg)
        /\ esp32Client' = esp32Client
        /\ ws' = ws ]_vars

C6_Witness ==
  /\ event.op = "status-check"
  /\ ~esp32Status.connected
  /\ IsOpen(ws, esp32Client)
  /\ \E h \in ClientHandles :
       /\ Len(outbox[h]) > 1
       /\ outbox[h][Len(outbox[h])].status = "offline"

\* the save() calls made for the k-th frame of the device
SaveAttempts(k) == {i \in 1..Len(saves) : saves[i].data = k}

\* the sensor-data broadcasts made for the k-th frame of the device
SensorBroadcasts(k) ==
  {m \in BagToSet(broadcasts) : m.type = "sensor-data" /\ m.data = k}

BroadcastOnce(k) ==
  \E m \in SensorBroadcasts(k) :
    SensorBroadcasts(k) = {m} /\ CopiesIn(m, broadcasts) = 1

\* C7: every sensor-data message of the device has exactly one save()
\* attempt; it is never broadcast twice; and once its save has settled, with
\* success or with an error, it has been broadcast exactly once.
C7_OneSaveOneBroadcast ==
  \A k \in 1..deviceFrames :
    /\ Cardinality(SaveAttempts(k)) = 1
    /\ SensorBroadcasts(k) = {} \/ BroadcastOnce(k)
    /\ \A i \in SaveAttempts(k) :
         saves[i].outcome # "pending" => BroadcastOnce(k)

C7_Witness ==
  \E i \in 1..Len(saves) :
    /\ saves[i].outcome = "failed"
    /\ BroadcastOnce(saves[i].data)
    /\ \E h \in ClientHandles :
         \E j \in 1..Len(outbox[h]) : outbox[h][j] = sensorDataMsg(saves[i])

\* C8: the sensor-data broadcasts reach every client in the order in which
\* the device sent the messages, whatever the order in which the saves
\* complete.
C8_BroadcastInSendOrder ==
  \A h \in ClientHandles :
    \A i, j \in 1..Len(outbox[h]) :
      (/\ i < j
       /\ outbox[h][i].type = "sensor-data"
       /\ outbox[h][j].type = "sensor-data") =>
        outbox[h][i].data < outbox[h][j].data

\* C9: the broadcast of a sensor-data message does not wait for its save:
\* whenever save() has been called for a message, pending or settled, the
\* message has been broadcast.
C9_BroadcastNotGatedOnSave ==
  \A i \in 1..Len(saves) : CopiesIn(sensorDataMsg(saves[i]), broadcasts) >= 1

\* C4: every identity has at most one registry entry, a client connection of
\* that identity, and no connection is registered under two identities; when
\* a connection is added for an identity that already has an entry, close()
\* has been called on the previous handle, which is no longer OPEN, when the
\* new handle is stored.
C4_OneConnectionPerIdentity ==
  [][ /\ \A u \in Users :
           clients'[u] # Null =>
             /\ clients'[u] \in ClientHandles
             /\ ws'[clients'[u]].userId = u
      /\ \A u \in Users :
           (/\ event'.op = "client-connection"
            /\ ws'[event'.h].userId = u
            /\ clients[u] # Null) =>
             /\ clients'[u] = event'.h
             /\ clients'[u] # clients[u]
             /\ ws'[clients[u]].closeCalls = ws[clients[u]].closeCalls + 1
             /\ ws'[clients[u]].readyState # "OPEN" ]_vars

C4_Witness ==
  /\ event.op = "client-connection"
  /\ clients["u1"] = MaxDevices + 2
  /\ ws[MaxDevices + 1].userId = "u1"
  /\ ws[MaxDevices + 1].closeCalls = 1
  /\ ws[MaxDevices + 1].readyState = "CLOSING"

\* C5: a registered client that the previous heartbeat visited and that has
\* sent no pong since is terminated by the next heartbeat, and a terminated
\* client is eventually absent from the registry (its 'close' event being
\* delivered).
C5_UnresponsiveClientEvicted ==
  /\ [][ \A h \in ClientHandles :
           (/\ event'.op = "heartbeat"
            /\ h \in Registered(clients)
            /\ h \in awaitingPong) =>
             /\ ws'[h].terminated
             /\ ws'[h].readyState # "OPEN" ]_vars
  /\ \A h \in ClientHandles :
       ws[h].terminated ~> (h \notin Registered(clients))

C5_Witness ==
  \E h \in ClientHandles :
    /\ ws[h].terminated
    /\ ws[h].readyState = "CLOSED"
    /\ h \notin Registered(clients)

\* C10: when an open client connection sends control-esp32 while the device
\* slot is empty or its handle is not open, that connection receives the
\* error message and nothing is sent to any device handle.
C10_NoDeviceErrorReply ==
  [][ \A h \in ClientHandles :
        (/\ event'.op = "client-message"
         /\ event'.h = h
         /\ event'.frame.type = "control-esp32"
         /\ clientMsgs' = clientMsgs + 1
         /\ IsOpen(ws, h)
         /\ ~IsOpen(ws, esp32Client)) =>
          /\ outbox'[h] = Append(outbox[h], errorMsg("ESP32 not connected"))
          /\ \A d \in DeviceHandles : outbox'[d] = outbox[d] ]_vars

\* the client connections that were handed a message by the step
Delivered(ob1, ob2) == {h \in ClientHandles : ob2[h] # ob1[h]}

\* C11: a call of broadcastToClients with message m hands m to every
\* registered open client whose send() does not throw, also when the send()
\* of another client throws; it removes from the registry the clients whose
\* send() threw and no other; and the count it returns is the number of
\* clients that were handed m.
C11_BroadcastSurvivesFailure ==
  [][ broadcasts' # broadcasts =>
        \E m \in BagToSet(broadcasts') :
          /\ broadcasts' = broadcasts (+) SetToBag({m})
          /\ \A u \in Users :
               LET h == clients[u]
               IN IF h = Null THEN clients'[u] = Null
                  ELSE IF ~IsOpen(ws, h)
                    THEN clients'[u] = h /\ outbox'[h] = outbox[h]
                  ELSE IF ws[h].sendThrows
                    THEN clients'[u] = Null /\ outbox'[h] = outbox[h]
                  ELSE clients'[u] = h /\ outbox'[h] = Append(outbox[h], m)
          /\ successCount(clients, ws) = Cardinality(Delivered(outbox, outbox')) ]_vars

C11_Witness ==
  /\ event.op = "esp32-message"
  /\ event.frame.type = "device-info"
  /\ \E h1, h2 \in ClientHandles :
       /\ ws[h1].sendThrows
       /\ ws[h1].readyState = "OPEN"
       /\ h1 \notin Registered(clients)
       /\ h2 \in Registered(clients)
       /\ outbox[h1][Len(outbox[h1])].type # "esp32-device-info"
       /\ outbox[h2][Len(outbox[h2])].type = "esp32-device-info"

\* the callbacks that end the handling of an upgrade request
UpgradeOps ==
  {"upgrade-rejected", "client-connection", "esp32-connection",
   "connection-refused"}

\* the credentials that are absent, rejected, without an id or of no user
BadCredentials == {"", "bad", "noid", "ghost"}

\* C12: an identity gets a new registry entry only in the handling of an
\* upgrade request on a non-device path whose credential the verifier
\* accepts and resolves to that user, the request being answered 101; and an
\* upgrade request on a non-device path with no credential, a rejected one,
\* one without an id or one of an unknown user is answered 401 and changes
\* neither the registry nor any connection.
C12_OnlyVerifiedClientsRegistered ==
  [][ /\ \A u \in Users :
           (clients'[u] # clients[u] /\ clients'[u] # Null) =>
             /\ event'.op = "client-connection"
             /\ clients'[u] = event'.h
             /\ upgrade'.request.path # DevicePath
             /\ extractToken(upgrade'.request) = u
             /\ upgrade'.response = 101
      /\ (/\ event'.op \in UpgradeOps
          /\ upgrade'.request.path # DevicePath
          /\ extractToken(upgrade'.request) \in BadCredentials) =>
           /\ upgrade'.response = 401
           /\ clients' = clients
           /\ ws' = ws ]_vars

C12_Witness ==
  /\ event.op = "upgrade-rejected"
  /\ upgrade.response = 401
  /\ upgrade.request.query = "ghost"
  /\ upgrade.request.origin = ""
  /\ clients["u1"] # Null
  /\ ws[clients["u1"]].readyState = "OPEN"

\* C13: an upgrade request on the device path, whatever credential it
\* carries, is answered 101 without a call of the verifier and its
\* connection becomes the device connection.
C13_DevicePathUnauthenticated ==
  [][ (event'.op \in UpgradeOps /\ upgrade'.request.path = DevicePath) =>
        /\ event'.op = "esp32-connection"
        /\ upgrade'.response = 101
        /\ ~upgrade'.verified
        /\ esp32Client' = event'.h
        /\ ws'[event'.h].readyState = "OPEN"
        /\ clients' = clients ]_vars

C13_Witness ==
  /\ event.op = "esp32-connection"
  /\ upgrade.request.path = DevicePath
  /\ upgrade.request.query = "bad"
  /\ upgrade.response = 101
  /\ esp32Client = event.h
  /\ esp32Status.connected

\* C14: every upgrade request, on the device path or not, whose origin is
\* non-empty and not in an allow-list without wildcard is rejected, and a
\* request with an empty origin is rejected only for its credential.
C14_OriginPolicyOnEveryPath ==
  [][ event'.op \in UpgradeOps =>
        /\ (/\ upgrade'.request.origin # ""
            /\ "*" \notin upgrade'.env.allowedOrigins
            /\ upgrade'.request.origin \notin upgrade'.env.allowedOrigins) =>
             upgrade'.response = 401
        /\ (upgrade'.request.origin = "" /\ upgrade'.response = 401) =>
             extractToken(upgrade'.request) \in BadCredentials ]_vars

\* the message types the two routers have a case for
DeviceTypes == {"device-info", "sensor-data", "status-update", "ping"}
ClientTypes == {"ping", "get-esp32-status", "get-sensor-data", "control-esp32"}

\* the frame of the step cannot be decoded or has a type without a case
Unroutable(e) ==
  \/ e.op \in {"esp32-message", "client-message"} /\ e.frame.fmt = "malformed"
  \/ e.op = "esp32-message" /\ e.frame.fmt = "json" /\ e.frame.type \notin DeviceTypes
  \/ e.op = "client-message" /\ e.frame.fmt = "json" /\ e.frame.type \notin ClientTypes

\* C15: a frame of the device or of a client that cannot be decoded, or whose
\* type has no case in the router, sends nothing to anyone, broadcasts
\* nothing, starts no save and no query, and leaves the registry, the device
\* slot and every connection (the sender's included) as they were.
C15_UnroutableFrameDropped ==
  [][ Unroutable(event') =>
        /\ outbox' = outbox
        /\ broadcasts' = broadcasts
        /\ saves' = saves
        /\ queries' = queries
        /\ clients' = clients
        /\ esp32Client' = esp32Client
        /\ ws' = ws ]_vars

C15_Witness ==
  /\ event.op = "client-message"
  /\ event.frame.type = "subscribe"
  /\ IsOpen(ws, event.h)
  /\ clients[ws[event.h].userId] = event.h
  /\ Len(outbox[event.h]) = 1
  /\ deviceFrames = 1
  /\ IsOpen(ws, esp32Client)
  /\ Len(outbox[esp32Client]) = 1

\* q is p with exactly one message appended
OneMore(p, q) == Len(q) = Len(p) + 1 /\ SubSeq(q, 1, Len(p)) = p

\* C16: when an open client connection sends control-esp32 while the device
\* connection is open, the device is sent exactly one command envelope with
\* a request identifier and the sender's identity, the sender is sent exactly
\* one command-sent acknowledgement, and no other client is sent anything.
C16_CommandRelayedAndAcknowledged ==
  [][ \A h \in ClientHandles :
        (/\ event'.op = "client-message"
         /\ event'.h = h
         /\ event'.frame.type = "control-esp32"
         /\ IsOpen(ws, h)
         /\ IsOpen(ws, esp32Client)) =>
          /\ OneMore(outbox[esp32Client], outbox'[esp32Client])
          /\ LET m == outbox'[esp32Client][Len(outbox'[esp32Client])]
             IN /\ m.type = "command"
                /\ m.command = event'.frame.command
                /\ m.requestId # NoTime
                /\ m.fromUserId = ws[h].userId
          /\ outbox'[h] = Append(outbox[h], commandSentMsg(event'.frame))
          /\ \A g \in ClientHandles \ {h} : outbox'[g] = outbox[g] ]_vars

\* C17: when the device sends a device-info message, esp32Status.deviceInfo
\* takes the name and the sensor types of that message, and every registered
\* open client is sent exactly one message, an esp32-device-info carrying
\* that name and those sensor types.
C17_DeviceInfoBroadcast ==
  [][ (/\ event'.op = "esp32-message"
       /\ event'.frame.fmt = "json"
       /\ event'.frame.type = "device-info") =>
        /\ esp32Status'.deviceInfo.deviceName = event'.frame.deviceName
        /\ esp32Status'.deviceInfo.sensorTypes = event'.frame.sensorTypes
        /\ \A u \in Users :
             IsOpen(ws, clients[u]) =>
               /\ OneMore(outbox[clients[u]], outbox'[clients[u]])
               /\ LET m == outbox'[clients[u]][Len(outbox'[clients[u]])]
                  IN /\ m.type = "esp32-device-info"
                     /\ m.deviceName = event'.frame.deviceName
                     /\ m.sensorTypes = event'.frame.sensorTypes ]_vars

C17_Witness ==
  /\ event.op = "esp32-message"
  /\ event.frame.deviceName = "S1"
  /\ deviceFrames = 2
  /\ esp32Status.deviceInfo.deviceName = "S1"
  /\ esp32Status.deviceInfo.sensorTypes = <<"temp">>
  /\ \A u \in Users :
       /\ IsOpen(ws, clients[u])
       /\ outbox[clients[u]][Len(outbox[clients[u]])].deviceName = "S1"
       /\ outbox[clients[u]][Len(outbox[clients[u]]) - 1].deviceName = "S2"

\* C18: every frame received from the device (binary, malformed, or
\* structured of any type) and every pong of the device sets lastSeen to the
\* current time, and no step moves lastSeen backwards.
C18_LastSeenRefreshed ==
  [][ /\ event'.op \in {"esp32-message", "esp32-pong"} =>
           esp32Status'.lastSeen = now'
      /\ esp32Status'.lastSeen >= esp32Status.lastSeen ]_vars

C18_Witness ==
  /\ event.op = "esp32-message"
  /\ event.frame.fmt = "malformed"
  /\ now = 3 * heartbeatInterval
  /\ esp32Status.lastSeen = now
  /\ ~esp32Status.connected

\* the registry, the device slot and the device status
Gateway ==
  [clients |-> clients, esp32Client |-> esp32Client, esp32Status |-> esp32Status]

\* C19: in every reachable state, removing an identity twice gives the
\* registry, slot and status that removing it once gives, and clearing the
\* device twice gives what clearing it once gives, with connected and
\* isStreaming false; the 'close' and 'error' handlers apply exactly these
\* operations, so a 'close' that follows the 'error' of the same connection
\* changes none of the three.
C19_RemovalIdempotent ==
  /\ [](/\ \A u \in Users :
             removeFrom(removeFrom(Gateway, u), u) = removeFrom(Gateway, u)
        /\ clearDevice(clearDevice(Gateway, ws), ws) = clearDevice(Gateway, ws)
        /\ ~clearDevice(Gateway, ws).esp32Status.connected
        /\ ~clearDevice(Gateway, ws).esp32Status.isStreaming)
  /\ [][ /\ (event'.op \in {"esp32-close", "esp32-error"}) =>
              (/\ Gateway' = clearDevice(Gateway, ws')
               /\ ~esp32Status'.connected
               /\ ~esp32Status'.isStreaming)
         /\ (event'.op \in {"client-close", "client-error"}) =>
              (Gateway' = removeFrom(Gateway, ws[event'.h].userId))
         /\ (/\ event.op \in {"esp32-error", "client-error"}
             /\ event'.op \in {"esp32-close", "client-close"}
             /\ event'.h = event.h) => (Gateway' = Gateway) ]_vars

C19_Witness ==
  /\ event.op = "esp32-close"
  /\ esp32Status.lastSeen # NoTime
  /\ esp32Status.deviceInfo.batteryLevel = 80
  /\ ~esp32Status.isStreaming
  /\ esp32Client = Null
  /\ \E d \in DeviceHandles : ws[d].readyState = "CLOSED"
  /\ \E h \in ClientHandles :
       /\ ws[h].readyState = "OPEN"
       /\ outbox[h] = <<disconnectedMsg, disconnectedMsg>>
  /\ \E h \in ClientHandles :
       /\ ws[h].readyState = "OPEN"
       /\ ws[h].sendThrows
       /\ h \notin Registered(clients)

\* C20: for every structured sensor-data message, whatever fields it
\* carries, the reading handed to save() has deviceId 'esp32-main', the time
\* of processing as timestamp and the sensorType of the message ('unknown'
\* when it has none), and every sensor-data broadcast carries the deviceId,
\* timestamp and sensorType of such a reading.
C20_ReadingStampedByGateway ==
  [][ /\ (/\ event'.op = "esp32-message"
          /\ event'.frame.fmt = "json"
          /\ event'.frame.type = "sensor-data") =>
           /\ Len(saves') = Len(saves) + 1
           /\ saves'[Len(saves')].deviceId = "esp32-main"
           /\ saves'[Len(saves')].timestamp = now'
           /\ saves'[Len(saves')].sensorType =
                IF event'.frame.sensorType = "" THEN "unknown"
                ELSE event'.frame.sensorType
      /\ \A m \in BagToSet(broadcasts') :
           m.type = "sensor-data" =>
             /\ m.deviceId = "esp32-main"
             /\ \E i \in 1..Len(saves') :
                  /\ m.data = saves'[i].data
                  /\ m.timestamp = saves'[i].timestamp
                  /\ m.sensorType = saves'[i].sensorType ]_vars

\* C21: a heartbeat resets the alive flag of every registered client whose
\* flag is true and calls ping() on it, without terminating or closing it; a
\* pong of a client sets its flag to true; and a heartbeat does not
\* terminate a client that is not awaiting a pong (it answered the last
\* probe, or was never probed).
C21_ResponsiveClientKept ==
  [][ \A h \in ClientHandles :
        /\ (/\ event'.op = "heartbeat"
            /\ h \in Registered(clients)
            /\ ws[h].isAlive) =>
             /\ ~ws'[h].isAlive
             /\ ws'[h].probed
             /\ ws'[h].terminated = ws[h].terminated
             /\ ws'[h].readyState = ws[h].readyState
        /\ (event'.op = "client-pong" /\ event'.h = h) => ws'[h].isAlive
        /\ (event'.op = "heartbeat" /\ h \notin awaitingPong) =>
             ws'[h].terminated = ws[h].terminated ]_vars

C21_Witness ==
  /\ event.op = "heartbeat"
  /\ \E h, g \in ClientHandles :
       /\ h < g
       /\ h \in Registered(clients)
       /\ ws[h].readyState = "OPEN"
       /\ ws[h].probed
       /\ ~ws[h].terminated
       /\ ws[g].terminated

\* C22: a staleness check, whether or not it marks the device offline,
\* leaves the device slot holding the same connection, calls neither close()
\* nor terminate() on any device connection and sends nothing to a device.
C22_StalenessCheckKeepsDevice ==
  [][ event'.op = "status-check" =>
        /\ esp32Client' = esp32Client
        /\ \A d \in DeviceHandles :
             /\ ws'[d] = ws[d]
             /\ outbox'[d] = outbox[d] ]_vars

C22_Witness ==
  /\ event.op = "status-check"
  /\ ~esp32Status.connected
  /\ esp32Client # Null
  /\ ws[esp32Client].readyState = "OPEN"
  /\ ws[esp32Client].closeCalls = 0
  /\ ~ws[esp32Client].terminated
  /\ Len(outbox[esp32Client]) = 1

\* C23: a binary frame of the device adds exactly one message to the
\* broadcasts, an audio-data message carrying the byte length of the frame
\* and the time of processing; every open registered client receives that
\* one message, and no save() is attempted.
C23_BinaryFrameBroadcastOnce ==
  [][ (event'.op = "esp32-message" /\ event'.frame.fmt = "binary") =>
        \E m \in BagToSet(broadcasts') :
          /\ m.type = "audio-data"
          /\ m.dataSize = event'.frame.size
          /\ m.timestamp = now
          /\ m.data = event'.frame.data
          /\ broadcasts' = broadcasts (+) SetToBag({m})
          /\ \A u \in Users :
               IsOpen(ws, clients[u]) =>
                 outbox'[clients[u]] = Append(outbox[clients[u]], m)
          /\ saves' = saves ]_vars

C23_Witness ==
  /\ event.op = "esp32-message"
  /\ event.frame.fmt = "binary"
  /\ event.frame.size = 4
  /\ now = heartbeatInterval
  /\ saves = <<>>
  /\ \E u \in Users :
       /\ IsOpen(ws, clients[u])
       /\ LET m == outbox[clients[u]][Len(outbox[clients[u]])]
          IN /\ m.type = "audio-data"
             /\ m.dataSize = 4
             /\ m.timestamp = heartbeatInterval
             /\ CopiesIn(m, broadcasts) = 1

\* C24: the first message in the outbox of every accepted client is the one
\* 'connection' message, sent by the step that accepts it and carrying the
\* device status of that moment, so no broadcast precedes it; and every step
\* that issues a broadcast appends that broadcast to the outbox of every
\* client that is registered and open.
C24_GreetedThenServed ==
  /\ [](\A h \in ClientHandles :
         ws[h].readyState # "NONE" =>
           /\ Len(outbox[h]) >= 1
           /\ outbox[h][1].type = "connection"
           /\ \A i \in 2..Len(outbox[h]) : outbox[h][i].type # "connection")
  /\ [][ /\ event'.op = "client-connection" =>
            /\ Len(outbox'[event'.h]) = 1
            /\ outbox'[event'.h][1].connected = esp32Status.connected
            /\ outbox'[event'.h][1].isStreaming = esp32Status.isStreaming
            /\ outbox'[event'.h][1].lastSeen = esp32Status.lastSeen
            /\ clients'[ws'[event'.h].userId] = event'.h
         /\ broadcasts' # broadcasts =>
            \E m \in BagToSet(broadcasts') :
              /\ broadcasts' = broadcasts (+) SetToBag({m})
              /\ \A u \in Users :
                   IsOpen(ws, clients[u]) =>
                     outbox'[clients[u]] = Append(outbox[clients[u]], m) ]_vars

C24_Witness ==
  \E h, g \in ClientHandles :
    /\ h # g
    /\ IsOpen(ws, h)
    /\ clients[ws[h].userId] = h
    /\ outbox[h][1].type = "connection"
    /\ outbox[h][1].connected
    /\ Len(outbox[h]) = 3
    /\ outbox[h][2].status = "disconnected"
    /\ outbox[h][3].status = "connected"
    /\ IsOpen(ws, g)
    /\ ~outbox[g][1].connected
    /\ Len(outbox[g]) = 2
    /\ outbox[g][2] = outbox[h][3]

\* the device connections accepted so far
AcceptedDevices == {d \in DeviceHandles : ws[d].readyState # "NONE"}

\* the device connection accepted last
LatestDevice == CHOOSE d \in AcceptedDevices : \A e \in AcceptedDevices : e <= d

\* C25: the close or error event of a device connection that is no longer
\* the one in the slot, delivered while the connection in the slot is open,
\* leaves the slot and connected=true as they are; and a control-esp32 of an
\* open client, sent while the device connection accepted last is open,
\* hands one command to that connection.
C25_ReplacedDeviceCloseHarmless ==
  [][ /\ (/\ event'.op \in {"esp32-close", "esp32-error"}
          /\ event'.h # esp32Client
          /\ IsOpen(ws, esp32Client)) =>
            /\ esp32Client' = esp32Client
            /\ esp32Status'.connected
      /\ \A h \in ClientHandles :
           (/\ event'.op = "client-message"
            /\ event'.h = h
            /\ event'.frame.type = "control-esp32"
            /\ IsOpen(ws, h)
            /\ AcceptedDevices # {}
            /\ IsOpen(ws, LatestDevice)) =>
             OneMore(outbox[LatestDevice], outbox'[LatestDevice]) ]_vars

\* C26: the close or error event of a client connection that is no longer
\* the registered connection of its identity leaves the registry entry of
\* that identity as it is, so that the registered connection is still handed
\* the broadcasts and visited by the heartbeat.
C26_ReplacedClientCloseHarmless ==
  [][ \A h \in ClientHandles :
        (/\ event'.op \in {"client-close", "client-error"}
         /\ event'.h = h
         /\ clients[ws[h].userId] # h) =>
          clients'[ws[h].userId] = clients[ws[h].userId] ]_vars

\* C27: a frame or a pong of the device sets lastSeen to the current time
\* and leaves connected as it is, so that a device marked offline by the
\* staleness check stays offline however often it is heard; connected goes
\* from false to true only in the step that accepts a device connection and
\* installs it in the slot.
C27_OfflineUntilReconnect ==
  [][ /\ event'.op \in {"esp32-message", "esp32-pong"} =>
           /\ esp32Status'.connected = esp32Status.connected
           /\ esp32Status'.lastSeen = now
      /\ (~esp32Status.connected /\ esp32Status'.connected) =>
           /\ event'.op = "esp32-connection"
           /\ esp32Client' = event'.h
           /\ esp32Client' # esp32Client ]_vars

C27_Witness ==
  /\ event.op = "esp32-pong"
  /\ event.h = esp32Client
  /\ IsOpen(ws, esp32Client)
  /\ deviceFrames = 1
  /\ now = 3 * heartbeatInterval
  /\ esp32Status.lastSeen = now
  /\ ~esp32Status.connected

\* C28: a step in which a client is sent a command-sent acknowledgement is a
\* step in which a command envelope was handed to a device connection.
C28_AcknowledgedOnlyIfHandedOver ==
  [][ \A h \in ClientHandles :
        (/\ event'.op = "client-message"
         /\ OneMore(outbox[h], outbox'[h])
         /\ outbox'[h][Len(outbox'[h])].type = "command-sent") =>
          \E d \in DeviceHandles :
            /\ OneMore(outbox[d], outbox'[d])
            /\ outbox'[d][Len(outbox'[d])].type = "command" ]_vars

\* C29: what a control-esp32 of an open client leads to is decided by the
\* device slot alone: with an open connection in the slot, whether
\* esp32Status.connected is true or the staleness check has set it to false,
\* the command is handed to that connection and the sender is sent
\* command-sent; otherwise the sender is sent the error and no device is
\* sent anything.
C29_RelayDecidedBySlot ==
  [][ \A h \in ClientHandles :
        (/\ event'.op = "client-message"
         /\ event'.h = h
         /\ event'.frame.type = "control-esp32"
         /\ IsOpen(ws, h)) =>
          IF IsOpen(ws, esp32Client)
            THEN /\ outbox'[esp32Client]
                      = Append(outbox[esp32Client],
                               commandMsg(ws[h].userId, event'.frame))
                 /\ outbox'[h] = Append(outbox[h], commandSentMsg(event'.frame))
            ELSE /\ outbox'[h]
                      = Append(outbox[h], errorMsg("ESP32 not connected"))
                 /\ \A d \in DeviceHandles : outbox'[d] = outbox[d] ]_vars

C29_Witness ==
  /\ event.op = "client-message"
  /\ ~esp32Status.connected
  /\ IsOpen(ws, esp32Client)
  /\ outbox[esp32Client][Len(outbox[esp32Client])].type = "command"
  /\ outbox[esp32Client][Len(outbox[esp32Client])].requestId
       = 3 * heartbeatInterval
  /\ outbox[event.h][Len(outbox[event.h])].type = "command-sent"

\* the command envelopes handed to the device connections: connection and
\* position in its outbox
Commands ==
  {c \in DeviceHandles \X (1..(MaxCommands + 1)) :
     /\ c[2] <= Len(outbox[c[1]])
     /\ outbox[c[1]][c[2]].type = "command"}

\* C30: any two command envelopes handed to the device carry different
\* requestId values.
C30_DistinctRequestIds ==
  \A c, e \in Commands :
    c # e => outbox[c[1]][c[2]].requestId # outbox[e[1]][e[2]].requestId

====
